---------------------------- MODULE Spec2Model ----------------------------
(***************************************************************************)
(* A model of the predicate combinators of predicates/__init__.py.         *)
(*                                                                         *)
(* A predicate object is the closure a factory returns; the state is the   *)
(* closure under construction or in use (its captured key, positional      *)
(* predicate and keyword predicates), the last call made to it and what    *)
(* that call returned.  Python values are written as the strings of their  *)
(* literals; an optional integer (a slice field that may be None) is the   *)
(* empty tuple for None and a one-element tuple otherwise.                 *)
(***************************************************************************)
EXTENDS Integers, Sequences, FiniteSets, TLC

(***************************************************************************)
(* Bounds of the model.                                                    *)
(***************************************************************************)
\* the longest positional argument list of a call
MaxArgs == 3
\* slice starts, stops and integer keys range over -KeyBound .. KeyBound
KeyBound == 2
\* slice steps range over the non-zero integers of -StepBound .. StepBound
StepBound == 2

(***************************************************************************)
(* Python values and the leaf (value) predicates.                          *)
(***************************************************************************)
NoneV == "None"
PyTrue == "True"
PyFalse == "False"

\* values given as positional arguments
ArgValues == {"42", "'jack'"}
\* values given as keyword arguments
KwValues == {"None", "'jack'"}
\* every value a caller passes
Values == ArgValues \cup KwValues

\* bool(x)
Truth(x) == x \notin {"False", "None", "0", "''", "()", "[]", "{}"}

PyBool(b) == IF b THEN PyTrue ELSE PyFalse

\* isinstance(obj, classinfo) for the classes the leaves test
IsA(cls, v) ==
    CASE cls = "basestring" -> v \in {"'jack'", "'fail'", "''", "' '"}
      [] cls = "int"        -> v \in {"42", "0", "True", "False"}
      [] cls = "Sized"      -> v \in {"'jack'", "'fail'", "''", "' '", "()", "(1,)", "[]", "{}"}
      [] cls = "Iterable"   -> v \in {"'jack'", "'fail'", "''", "' '", "()", "(1,)", "[]", "{}"}
      [] cls = "bool"       -> v \in {"True", "False"}
      [] cls = "tuple"      -> v \in {"()", "(1,)"}
      [] cls = "list"       -> v \in {"[]"}
      [] cls = "Mapping"    -> v \in {"{}"}
      [] cls = "Hashable"   -> v \notin {"[]", "{}"}
      [] OTHER              -> FALSE

\* len(v) of the sized values
PyLen(v) ==
    CASE v \in {"''", "()", "[]", "{}"} -> 0
      [] v \in {"' '", "(1,)"}          -> 1
      [] OTHER                          -> 4

\* the value predicates used as leaves: isstring, isint, isnone
Leaves == {"isstring", "isint", "isnone"}

LeafApply(p, v) ==
    CASE p = "isstring" -> PyBool(IsA("basestring", v))
      [] p = "isint"    -> PyBool(IsA("int", v))
      [] p = "isnone"   -> PyBool(v = NoneV)
      [] OTHER          -> PyFalse

(***************************************************************************)
(* Keys: _args[key] takes an integer or a slice.                           *)
(***************************************************************************)
None == << >>
Some(i) == << i >>
IsNone(o) == o = << >>
Val(o) == o[1]

IntKey(i) == [isint |-> TRUE, i |-> i, start |-> None, stop |-> None, step |-> None]
SliceKey(a, b, c) == [isint |-> FALSE, i |-> 0, start |-> a, stop |-> b, step |-> c]

isslice(key) == ~key.isint

OptInts == {None} \cup {Some(i) : i \in -KeyBound .. KeyBound}
OptSteps == {None} \cup {Some(i) : i \in (-StepBound .. StepBound) \ {0}}

IntKeys == {IntKey(i) : i \in -KeyBound .. KeyBound}
SliceKeys == {SliceKey(a, b, c) : a \in OptInts, b \in OptInts, c \in OptSteps}
Keys == IntKeys \cup SliceKeys

\* lines 341-343: a non-slice key becomes the equivalent slice
NormKeyOneElement(key) ==
    IF isslice(key) THEN key
    ELSE SliceKey(Some(key.i), Some(key.i + 1), None)

NormKey(key) ==
    IF isslice(key) THEN key
    ELSE IF key.i >= 0 THEN SliceKey(Some(key.i), Some(key.i + 1), None)
    ELSE SliceKey(Some(key.i), None, None)

(***************************************************************************)
(* args[key] for a slice key: the interpreter resolves the slice against   *)
(* len(args) (slice.indices) and gathers the elements.                     *)
(***************************************************************************)
SliceStep(key) == IF IsNone(key.step) THEN 1 ELSE Val(key.step)

\* one bound of the slice, resolved against a sequence of n elements
AdjustBound(o, n, step, dflt) ==
    IF IsNone(o) THEN dflt
    ELSE LET v == Val(o)
             w == IF v < 0 THEN v + n ELSE v
         IN  IF w < 0 THEN (IF step < 0 THEN -1 ELSE 0)
             ELSE IF w >= n THEN (IF step < 0 THEN n - 1 ELSE n)
             ELSE w

SliceIndicesNoStep(key, n) ==
    LET start == AdjustBound(key.start, n, 1, 0)
        stop  == AdjustBound(key.stop, n, 1, n)
    IN  [start |-> start, stop |-> stop, step |-> 1,
         len |-> IF start < stop THEN stop - start ELSE 0]

SliceIndices(key, n) ==
    LET step  == SliceStep(key)
        start == AdjustBound(key.start, n, step, IF step < 0 THEN n - 1 ELSE 0)
        stop  == AdjustBound(key.stop, n, step, IF step < 0 THEN -1 ELSE n)
        len   == IF step < 0
                 THEN (IF stop < start THEN ((start - stop - 1) \div (-step)) + 1 ELSE 0)
                 ELSE (IF start < stop THEN ((stop - start - 1) \div step) + 1 ELSE 0)
    IN  [start |-> start, stop |-> stop, step |-> step, len |-> len]

GetSlice(args, key) ==
    LET ix == SliceIndices(key, Len(args))
    IN  [j \in 1 .. ix.len |-> args[ix.start + (j - 1) * ix.step + 1]]


(***************************************************************************)
(* _all(predicate): all(predicate(arg) for arg in args), left to right,    *)
(* stopping at the first false result.  An evaluation yields the value     *)
(* returned (ret) and the leaf applications it made, in order (inv).       *)
(***************************************************************************)
Applied(p, v, at) == [pred |-> p, arg |-> v, at |-> at]

RECURSIVE AnyFrom(_, _, _)
AnyFrom(p, xs, i) ==
    IF i > Len(xs) THEN [ret |-> PyFalse, inv |-> << >>]
    ELSE LET r == LeafApply(p, xs[i])
         IN  IF Truth(r) THEN [ret |-> PyTrue, inv |-> << Applied(p, xs[i], "pos") >>]
             ELSE LET rest == AnyFrom(p, xs, i + 1)
                  IN  [ret |-> rest.ret,
                       inv |-> << Applied(p, xs[i], "pos") >> \o rest.inv]

RECURSIVE AllFrom(_, _, _)
AllFrom(p, xs, i) ==
    IF i > Len(xs) THEN [ret |-> PyTrue, inv |-> << >>]
    ELSE LET r == LeafApply(p, xs[i])
         IN  IF ~Truth(r) THEN [ret |-> PyFalse, inv |-> << Applied(p, xs[i], "pos") >>]
             ELSE LET rest == AllFrom(p, xs, i + 1)
                  IN  [ret |-> rest.ret,
                       inv |-> << Applied(p, xs[i], "pos") >> \o rest.inv]

AllAsAny(p, xs) == AnyFrom(p, xs, 1)

\* the predicate _all(p) applied to the arguments xs
All(p, xs) == AllFrom(p, xs, 1)

(***************************************************************************)
(* Dictionaries (the kwargs of a call, the kw_predicates of the factory) are  *)
(* total functions on the keyword names; a name the dictionary does not  *)
(* hold maps to Missing.  The names are ordinary keyword names, none of  *)
(* them a parameter name of __call__ or _args_factory.  *)
(***************************************************************************)
KwNames == {"jack", "kate"}
Missing == "<missing>"
NoPred == "None"

DictKeys(d) == {k \in KwNames : d[k] # Missing}
EmptyDict == [k \in KwNames |-> Missing]
KwArgDicts == [KwNames -> KwValues \cup {Missing}]
KwPredDicts == [KwNames -> Leaves \cup {Missing}]

\* the orders in which a dictionary's items() may come
ItemOrders(d) ==
    {s \in [1 .. Cardinality(DictKeys(d)) -> DictKeys(d)] :
        \A i, j \in DOMAIN s : i # j => s[i] # s[j]}

\* line 363: the value kwargs.get(kw, None) gives for a name not passed
KwDefault == NoneV

\* kwargs.get(kw, None)
DictGet(d, k) == IF d[k] = Missing THEN KwDefault ELSE d[k]

\* all(predicate(kwargs.get(kw, None)) for (kw, predicate) in kw_predicates.items())
RECURSIVE KwAllFrom(_, _, _, _)
KwAllFrom(kwp, kwargs, ord, i) ==
    IF i > Len(ord) THEN [ret |-> PyTrue, inv |-> << >>]
    ELSE LET kw == ord[i]
             v  == DictGet(kwargs, kw)
             r  == LeafApply(kwp[kw], v)
         IN  IF ~Truth(r) THEN [ret |-> PyFalse, inv |-> << Applied(kwp[kw], v, kw) >>]
             ELSE LET rest == KwAllFrom(kwp, kwargs, ord, i + 1)
                  IN  [ret |-> rest.ret,
                       inv |-> << Applied(kwp[kw], v, kw) >> \o rest.inv]

KwAll(kwp, kwargs, ord) == KwAllFrom(kwp, kwargs, ord, 1)

(***************************************************************************)
(* _args_factory (lines 345-383): the build-time check and the three       *)
(* closures it returns.  A closure is [key, pos, kwp].                     *)
(***************************************************************************)
Closure(key, pos, kwp) == [key |-> key, pos |-> pos, kwp |-> kwp]

NeverInvalid(pos, kwp) == FALSE

\* line 355: not (pos_predicate or kw_predicates)
InvalidSpec(pos, kwp) == pos = NoPred /\ DictKeys(kwp) = {}

ArgsKwOnlyFirstItem(c, args, kwargs, ord) ==
    KwAll(c.kwp, kwargs, IF Len(ord) > 1 THEN << ord[1] >> ELSE ord)

\* lines 362-365
ArgsKwOnly(c, args, kwargs, ord) == KwAll(c.kwp, kwargs, ord)

\* lines 369, 373-374
ArgsPosOnly(c, args, kwargs, ord) == All(c.pos, GetSlice(args, c.key))

ArgsBothIgnoreKw(c, args, kwargs, ord) == All(c.pos, GetSlice(args, c.key))

\* the two checks of lines 379-382 in the other order
ArgsBothKwFirst(c, args, kwargs, ord) ==
    LET k == KwAll(c.kwp, kwargs, ord)
    IN  IF ~Truth(k.ret) THEN k
        ELSE LET a == All(c.pos, GetSlice(args, c.key))
             IN  [ret |-> a.ret, inv |-> k.inv \o a.inv]

\* lines 369, 378-382
ArgsBoth(c, args, kwargs, ord) ==
    LET a == All(c.pos, GetSlice(args, c.key))
    IN  IF ~Truth(a.ret) THEN a
        ELSE LET k == KwAll(c.kwp, kwargs, ord)
             IN  [ret |-> k.ret, inv |-> a.inv \o k.inv]

\* the closure _args_factory returned, applied to a call
ArgsApply(c, args, kwargs, ord) ==
    IF c.pos = NoPred THEN ArgsKwOnly(c, args, kwargs, ord)
    ELSE IF DictKeys(c.kwp) = {} THEN ArgsPosOnly(c, args, kwargs, ord)
    ELSE ArgsBoth(c, args, kwargs, ord)

\* line 326: the key that __call__ passes to __getitem__
CallKeyFirst == IntKey(0)

CallKey == SliceKey(None, None, None)

\* lines 373-375, 378-383: a call reads the captured key and does not rebind it
KeyResolvedAtCall(key, n) ==
    LET ix == SliceIndices(key, n)
    IN  SliceKey(Some(ix.start), IF ix.stop < 0 THEN None ELSE Some(ix.stop), Some(ix.step))

KeyAfterCall(key, n) == key

(***************************************************************************)
(* The boolean combinators _and, _or, _not (lines 35-60).  A predicate is  *)
(* a tree: a leaf, or a combinator over a tuple of predicates.  Applying   *)
(* one to a call yields the value returned (ret), the exception raised     *)
(* (exc, "none" if none) and the leaf applications made, in order (inv).   *)
(***************************************************************************)
Leaf(name) == [op |-> "leaf", leaf |-> name, subs |-> << >>]
Node(op, ps) == [op |-> op, leaf |-> "", subs |-> ps]

Returned(v, inv) == [ret |-> v, exc |-> "none", inv |-> inv]
Raised(e, inv) == [ret |-> "n/a", exc |-> e, inv |-> inv]

\* the predicates of one value: isstring, isempty, isatom
ValueLeaves == {"isstring", "isempty", "isatom"}
\* the predicates of any call: true_ and false_, lines 679-680
ConstLeaves == {"true_", "false_"}
\* a predicate that raises whenever it is invoked (the tests' helper fail)
RaisingLeaves == {"fail"}
\* a predicate of one value that raises on 'fail' and returns any other value as
\* it is (the tests' helper passfail)
PassLeaves == {"passfail"}

\* emptiness taken as falsiness: not val
IsEmptyFalsy(v) == ~Truth(v)

\* isempty, line 491: issized(val) and len(val) == 0
IsEmpty(v) == IsA("Sized", v) /\ PyLen(v) = 0

\* lines 482-491, 558-597, 617
ValueLeafApply(name, v) ==
    CASE name = "isstring"     -> PyBool(IsA("basestring", v))
      [] name = "isempty"      -> PyBool(IsEmpty(v))
      [] name = "isatom"       -> PyBool(~(IsA("Iterable", v) /\ ~IsA("basestring", v)))
      [] name = "isnsiterable" -> PyBool(IsA("Iterable", v) /\ ~IsA("basestring", v))
      [] name = "issized"      -> PyBool(IsA("Sized", v))
      [] name = "isiterable"   -> PyBool(IsA("Iterable", v))
      [] name = "isint"        -> PyBool(IsA("int", v))
      [] name = "isbool"       -> PyBool(IsA("bool", v))
      [] name = "istuple"      -> PyBool(IsA("tuple", v))
      [] name = "islist"       -> PyBool(IsA("list", v))
      [] name = "ismap"        -> PyBool(IsA("Mapping", v))
      [] name = "isnone"       -> PyBool(v = NoneV)
      [] OTHER                 -> PyFalse

\* a leaf applied to the arguments of a call: a predicate of one value takes exactly
\* one positional argument and no keyword argument
LeafCall(name, a, kw) ==
    LET here == << Applied(name, a, "call") >>
    IN  CASE name = "true_"  -> Returned(PyTrue, here)
          [] name = "false_" -> Returned(PyFalse, here)
          [] name = "fail"   -> Raised("Exception", here)
          [] name = "passfail" ->
                 IF Len(a) # 1 \/ DictKeys(kw) # {} THEN Raised("TypeError", here)
                 ELSE IF a[1] = "'fail'" THEN Raised("Exception", here)
                 ELSE Returned(a[1], here)
          [] OTHER -> IF Len(a) = 1 /\ DictKeys(kw) = {}
                      THEN Returned(ValueLeafApply(name, a[1]), here)
                      ELSE Raised("TypeError", here)

RECURSIVE EvalPred(_, _, _)

\* all(...) over the predicates applied to the call, from the i-th on
RECURSIVE AllOf(_, _, _, _)
AllOf(ps, a, kw, i) ==
    IF i > Len(ps) THEN Returned(PyTrue, << >>)
    ELSE LET r == EvalPred(ps[i], a, kw)
         IN  IF r.exc # "none" THEN r
             ELSE IF ~Truth(r.ret) THEN Returned(PyFalse, r.inv)
             ELSE LET rest == AllOf(ps, a, kw, i + 1)
                  IN  [rest EXCEPT !.inv = r.inv \o rest.inv]

\* any(...) over the predicates applied to the call, from the i-th on
RECURSIVE AnyOf(_, _, _, _)
AnyOf(ps, a, kw, i) ==
    IF i > Len(ps) THEN Returned(PyFalse, << >>)
    ELSE LET r == EvalPred(ps[i], a, kw)
         IN  IF r.exc # "none" THEN r
             ELSE IF Truth(r.ret) THEN Returned(PyTrue, r.inv)
             ELSE LET rest == AnyOf(ps, a, kw, i + 1)
                  IN  [rest EXCEPT !.inv = r.inv \o rest.inv]

\* not x inside a handler that turns every exception into False
NegatedSwallow(r) ==
    IF r.exc # "none" THEN Returned(PyFalse, r.inv) ELSE Returned(PyBool(~Truth(r.ret)), r.inv)

\* not x
Negated(r) == IF r.exc # "none" THEN r ELSE Returned(PyBool(~Truth(r.ret)), r.inv)

\* all([...]) over a list built first: every predicate is applied before any
\* result is looked at
RECURSIVE EagerAllOf(_, _, _, _)
EagerAllOf(ps, a, kw, i) ==
    IF i > Len(ps) THEN Returned(PyTrue, << >>)
    ELSE LET r == EvalPred(ps[i], a, kw)
         IN  IF r.exc # "none" THEN r
             ELSE LET rest == EagerAllOf(ps, a, kw, i + 1)
                  IN  IF rest.exc # "none" THEN [rest EXCEPT !.inv = r.inv \o rest.inv]
                      ELSE Returned(PyBool(Truth(r.ret) /\ Truth(rest.ret)),
                                    r.inv \o rest.inv)

EvalAndEager(ps, a, kw) == EagerAllOf(ps, a, kw, 1)

\* lines 40-41
EvalAnd(ps, a, kw) == AllOf(ps, a, kw, 1)

\* p1(...) or p2(...) or ...: the first truthy result itself, from the i-th on
RECURSIVE OrChain(_, _, _, _)
OrChain(ps, a, kw, i) ==
    IF i > Len(ps) THEN Returned(PyFalse, << >>)
    ELSE LET r == EvalPred(ps[i], a, kw)
         IN  IF r.exc # "none" \/ Truth(r.ret) THEN r
             ELSE LET rest == OrChain(ps, a, kw, i + 1)
                  IN  [rest EXCEPT !.inv = r.inv \o rest.inv]

EvalOrValue(ps, a, kw) == OrChain(ps, a, kw, 1)

\* lines 49-50
EvalOr(ps, a, kw) == AnyOf(ps, a, kw, 1)

EvalNotAll(ps, a, kw) == Negated(AllOf(ps, a, kw, 1))

\* lines 58-59
EvalNot(ps, a, kw) == Negated(AnyOf(ps, a, kw, 1))

(***************************************************************************)
(* The quantifiers _all, _any, _none (lines 91-116): the one predicate     *)
(* they hold is applied to the positional arguments of the call, one at a  *)
(* time; the keyword arguments of the call are not read.                   *)
(***************************************************************************)
\* predicate(arg)
OneArg(p, v) == EvalPred(p, << v >>, EmptyDict)

\* all(predicate(arg) for arg in args), from the i-th argument on
RECURSIVE AllArgs(_, _, _)
AllArgs(p, a, i) ==
    IF i > Len(a) THEN Returned(PyTrue, << >>)
    ELSE LET r == OneArg(p, a[i])
         IN  IF r.exc # "none" THEN r
             ELSE IF ~Truth(r.ret) THEN Returned(PyFalse, r.inv)
             ELSE LET rest == AllArgs(p, a, i + 1)
                  IN  [rest EXCEPT !.inv = r.inv \o rest.inv]

\* any(predicate(arg) for arg in args), from the i-th argument on
RECURSIVE AnyArgs(_, _, _)
AnyArgs(p, a, i) ==
    IF i > Len(a) THEN Returned(PyFalse, << >>)
    ELSE LET r == OneArg(p, a[i])
         IN  IF r.exc # "none" THEN r
             ELSE IF Truth(r.ret) THEN Returned(PyTrue, r.inv)
             ELSE LET rest == AnyArgs(p, a, i + 1)
                  IN  [rest EXCEPT !.inv = r.inv \o rest.inv]

\* all(not predicate(arg) for arg in args), from the i-th argument on
RECURSIVE NoneArgs(_, _, _)
NoneArgs(p, a, i) ==
    IF i > Len(a) THEN Returned(PyTrue, << >>)
    ELSE LET r == OneArg(p, a[i])
         IN  IF r.exc # "none" THEN r
             ELSE IF Truth(r.ret) THEN Returned(PyFalse, r.inv)
             ELSE LET rest == NoneArgs(p, a, i + 1)
                  IN  [rest EXCEPT !.inv = r.inv \o rest.inv]

\* any([...]) over a list built first: the predicate is applied to every argument
\* before any result is looked at
RECURSIVE EagerAnyArgs(_, _, _)
EagerAnyArgs(p, a, i) ==
    IF i > Len(a) THEN Returned(PyFalse, << >>)
    ELSE LET r == OneArg(p, a[i])
         IN  IF r.exc # "none" THEN r
             ELSE LET rest == EagerAnyArgs(p, a, i + 1)
                  IN  IF rest.exc # "none" THEN [rest EXCEPT !.inv = r.inv \o rest.inv]
                      ELSE Returned(PyBool(Truth(r.ret) \/ Truth(rest.ret)),
                                    r.inv \o rest.inv)

\* lines 96-97
EvalAll(ps, a, kw) == AllArgs(ps[1], a, 1)

EvalAnyEager(ps, a, kw) == EagerAnyArgs(ps[1], a, 1)

\* lines 105-106
EvalAny(ps, a, kw) == AnyArgs(ps[1], a, 1)

\* not all(...) in place of all(not ...)
EvalNoneAsNotAll(ps, a, kw) == Negated(AllArgs(ps[1], a, 1))

\* lines 114-115
EvalNone(ps, a, kw) == NoneArgs(ps[1], a, 1)

(***************************************************************************)
(* _zip (lines 62-85): the i-th predicate is applied to the i-th           *)
(* positional argument, as far as both reach.                              *)
(***************************************************************************)
\* all(predicate(arg) for (predicate, arg) in pairs), from the i-th pair of n on
RECURSIVE ZipFrom(_, _, _, _)
ZipFrom(ps, a, n, i) ==
    IF i > n THEN Returned(PyTrue, << >>)
    ELSE LET r == OneArg(ps[i], a[i])
         IN  IF r.exc # "none" THEN r
             ELSE IF ~Truth(r.ret) THEN Returned(PyFalse, r.inv)
             ELSE LET rest == ZipFrom(ps, a, n, i + 1)
                  IN  [rest EXCEPT !.inv = r.inv \o rest.inv]

\* the pairing that fills the shorter side with None, as far as the predicates reach
EvalZipPadded(ps, a, kw) ==
    ZipFrom(ps, [i \in 1 .. Len(ps) |-> IF i <= Len(a) THEN a[i] ELSE NoneV], Len(ps), 1)

\* lines 81-84: zip(predicates, args) stops with the shorter of the two
EvalZip(ps, a, kw) ==
    ZipFrom(ps, a, IF Len(ps) < Len(a) THEN Len(ps) ELSE Len(a), 1)

EvalPred(t, a, kw) ==
    CASE t.op = "leaf" -> LeafCall(t.leaf, a, kw)
      [] t.op = "zip"  -> EvalZip(t.subs, a, kw)
      [] t.op = "and"  -> EvalAnd(t.subs, a, kw)
      [] t.op = "or"   -> EvalOr(t.subs, a, kw)
      [] t.op = "not"  -> EvalNot(t.subs, a, kw)
      [] t.op = "all"  -> EvalAll(t.subs, a, kw)
      [] t.op = "any"  -> EvalAny(t.subs, a, kw)
      [] t.op = "none" -> EvalNone(t.subs, a, kw)

(***************************************************************************)
(* The numeric range predicate _nis (lines 682-718) and the counters built *)
(* on it through _fnis (lines 720-733): _nargs, _npos, _nkw (lines         *)
(* 387-428).  A limit left at its default False is None here, a limit      *)
(* given is Some(i): 0 is not False, so Some(0) is a limit given.          *)
(***************************************************************************)
\* the largest limit of a specification
CountBound == 2

CountSpec(lo, hi, ex) == [atleast |-> lo, atmost |-> hi, exactly |-> ex]
\* the defaults of line 682
NoSpec == CountSpec(None, None, None)
\* the value of bound while no closure is held
NoBound == [kind |-> "none"]

\* x < 0 of line 695: False < 0 is false
Negative(o) == ~IsNone(o) /\ Val(o) < 0

\* the tests of lines 695-708 with the truth of a limit in place of its identity
\* with False
NisInvalidTruthy(s) ==
    LET isset(o) == ~IsNone(o) /\ Val(o) # 0
    IN  \/ Negative(s.atleast) \/ Negative(s.atmost) \/ Negative(s.exactly)
        \/ isset(s.exactly) /\ (isset(s.atleast) \/ isset(s.atmost))
        \/ ~isset(s.exactly) /\ ~isset(s.atleast) /\ ~isset(s.atmost)

\* _nis raises ValueError: lines 695-696, 698-701, 706-708
NisInvalid(s) ==
    \/ Negative(s.atleast) \/ Negative(s.atmost) \/ Negative(s.exactly)
    \/ ~IsNone(s.exactly) /\ ~(IsNone(s.atleast) /\ IsNone(s.atmost))
    \/ IsNone(s.exactly) /\ IsNone(s.atleast) /\ IsNone(s.atmost)

\* the closure with the defaults taken where a limit is falsy
NisClosureTruthy(s) ==
    LET isset(o) == ~IsNone(o) /\ Val(o) # 0
    IN  IF isset(s.exactly)
        THEN [kind |-> "exactly", atleast |-> 0, atmost |-> None, exactly |-> Val(s.exactly)]
        ELSE [kind |-> "between",
              atleast |-> IF isset(s.atleast) THEN Val(s.atleast) ELSE 0,
              atmost  |-> IF isset(s.atmost) THEN s.atmost ELSE None,
              exactly |-> 0]

\* the closure _nis returns: _nis_exactly holding exactly (lines 698-704), or
\* _nis_between holding atleast, 0 by default, and atmost, infinite (None) by
\* default (lines 710-718)
NisClosure(s) ==
    IF ~IsNone(s.exactly)
    THEN [kind |-> "exactly", atleast |-> 0, atmost |-> None, exactly |-> Val(s.exactly)]
    ELSE [kind |-> "between",
          atleast |-> IF IsNone(s.atleast) THEN 0 ELSE Val(s.atleast),
          atmost  |-> s.atmost,
          exactly |-> 0]

\* _nis_exactly(n), line 703, and _nis_between(n), line 717
NisApply(c, n) ==
    IF c.kind = "exactly" THEN n = c.exactly
    ELSE c.atleast <= n /\ (IsNone(c.atmost) \/ n <= Val(c.atmost))

\* the factories that hand their limits to _fnis
Counters == {"nargs", "npos", "nkw"}

LengthPos(fn, a, kw) == Len(a)

\* the three functions length: lines 398-399, 412-413, 426-427
Length(fn, a, kw) ==
    CASE fn = "nargs" -> Len(a) + Cardinality(DictKeys(kw))
      [] fn = "npos"  -> Len(a)
      [] fn = "nkw"   -> Cardinality(DictKeys(kw))

\* the closure _fnis returns, line 732
FnisApply(c, fn, a, kw) == NisApply(c, Length(fn, a, kw))

(***************************************************************************)
(* The keyword presence predicate _inkw (lines 430-476).  A collection of  *)
(* names is given as a tuple, which may repeat a name, or as a mapping,    *)
(* whose keys are distinct and come in any order; items is the sequence    *)
(* its iteration yields.  A parameter left at its default False is None, a *)
(* collection given is Some(c): an empty collection is not False.          *)
(***************************************************************************)
\* the longest collection of names
MaxNames == 2

TupleOf(items) == [kind |-> "tuple", items |-> items]
DictOf(items) == [kind |-> "dict", items |-> items]

\* len(c)
CollLen(c) == Len(c.items)
\* frozenset(c)
FrozenSet(c) == {c.items[i] : i \in DOMAIN c.items}
\* frozenset(kwargs.keys()), lines 467 and 474
KeySet(kw) == DictKeys(kw)

\* the tests of lines 448-460 with the truth of a collection in place of its
\* identity with False
InkwInvalidTruthy(s) ==
    LET isset(o) == ~IsNone(o) /\ CollLen(Val(o)) > 0
    IN  \/ isset(s.exactly) /\ (isset(s.atleast) \/ isset(s.atmost))
        \/ ~isset(s.exactly) /\ ~isset(s.atleast) /\ ~isset(s.atmost)

\* _inkw raises ValueError: lines 448-451, 458-460
InkwInvalid(s) ==
    \/ ~IsNone(s.exactly) /\ ~(IsNone(s.atleast) /\ IsNone(s.atmost))
    \/ IsNone(s.exactly) /\ IsNone(s.atleast) /\ IsNone(s.atmost)

\* the closure holding a lower limit cut down to the upper limit
InkwClosureClamped(s) ==
    IF ~IsNone(s.exactly)
    THEN [kind |-> "exactly", exactly |-> Val(s.exactly).items, atleast |-> {}, atmost |-> {}]
    ELSE LET lo == IF IsNone(s.atleast) THEN {} ELSE FrozenSet(Val(s.atleast))
         IN  IF IsNone(s.atmost)
             THEN [kind |-> "atleast", exactly |-> << >>, atleast |-> lo, atmost |-> {}]
             ELSE [kind |-> "between", exactly |-> << >>,
                   atleast |-> lo \cap FrozenSet(Val(s.atmost)),
                   atmost |-> FrozenSet(Val(s.atmost))]

\* the closure _inkw returns: the one of lines 453-456 holding exactly as it was
\* given, the one of lines 466-470 holding frozenset(atleast), or the one of
\* lines 472-476 holding frozenset(atleast) and frozenset(atmost); atleast is ()
\* by default (lines 462-464)
InkwClosure(s) ==
    IF ~IsNone(s.exactly)
    THEN [kind |-> "exactly", exactly |-> Val(s.exactly).items, atleast |-> {}, atmost |-> {}]
    ELSE LET lo == IF IsNone(s.atleast) THEN {} ELSE FrozenSet(Val(s.atleast))
         IN  IF IsNone(s.atmost)
             THEN [kind |-> "atleast", exactly |-> << >>, atleast |-> lo, atmost |-> {}]
             ELSE [kind |-> "between", exactly |-> << >>, atleast |-> lo,
                   atmost |-> FrozenSet(Val(s.atmost))]

\* the closures with the lower limit left out of the comparison of line 475
InkwApplyAtmostOnly(c, kw) ==
    CASE c.kind = "exactly" ->
             /\ Cardinality(KeySet(kw)) = Len(c.exactly)
             /\ \A i \in DOMAIN c.exactly : c.exactly[i] \in KeySet(kw)
      [] c.kind = "atleast" -> c.atleast \subseteq KeySet(kw)
      [] c.kind = "between" -> KeySet(kw) \subseteq c.atmost

\* the closures with the count alone compared in the exactly form
InkwApplyLenOnly(c, kw) ==
    CASE c.kind = "exactly" -> Cardinality(KeySet(kw)) = Len(c.exactly)
      [] c.kind = "atleast" -> c.atleast \subseteq KeySet(kw)
      [] c.kind = "between" -> c.atleast \subseteq KeySet(kw) /\ KeySet(kw) \subseteq c.atmost

\* the closures called: lines 454-455, 467-468, 474-475
InkwApply(c, kw) ==
    CASE c.kind = "exactly" ->
             /\ Cardinality(KeySet(kw)) = Len(c.exactly)
             /\ \A i \in DOMAIN c.exactly : c.exactly[i] \in KeySet(kw)
      [] c.kind = "atleast" -> c.atleast \subseteq KeySet(kw)
      [] c.kind = "between" -> c.atleast \subseteq KeySet(kw) /\ KeySet(kw) \subseteq c.atmost

(***************************************************************************)
(* The memoized factory _return (lines 654-680).  A closure is the value   *)
(* it returns together with its identity, the rank of its making.  The     *)
(* memo is a dict: values that are equal and hash alike (1 and True, 0 and *)
(* False) find the same key.                                               *)
(***************************************************************************)
\* the most closures _return makes
MaxMade == 5

\* the values _return is given
ReturnValues == {"True", "False", "1", "0", "'jack'", "[]"}

\* ishashable(val), lines 561 and 668
Hashable(v) == IsA("Hashable", v)

\* the key of the dict that is equal to v: True == 1 and False == 0
DictKey(v) ==
    CASE v \in {"True", "1"}  -> "1"
      [] v \in {"False", "0"} -> "0"
      [] OTHER                -> v

MemoKeys == {DictKey(v) : v \in {w \in ReturnValues : Hashable(w)}}

\* def _return(...): return val, lines 670-671 and 675-676
Closure_(n, v) == [id |-> n, val |-> v]
NoEntry == Closure_(0, "<none>")

\* a test that never finds the value in the memo
MemoHasNever(m, v) == FALSE

\* val in __cache_return, line 669
MemoHas(m, v) == m[DictKey(v)] # NoEntry

\* __cache_return[val] = _return, line 672
MemoPut(m, v, f) == [m EXCEPT ![DictKey(v)] = f]

\* __cache_return[val], line 673
MemoGet(m, v) == m[DictKey(v)]

\* the memo when the module is imported: true_ = _return(True) and
\* false_ = _return(False), lines 679-680
ImportedMemo ==
    MemoPut(MemoPut([k \in MemoKeys |-> NoEntry], "True", Closure_(1, "True")),
            "False", Closure_(2, "False"))

\* the callers of _return
Callers == {"t1", "t2"}

\* where a call of _return stands: pc is "idle", "lookup" (line 669), "insert"
\* (lines 670-672), "fetch" (line 673), "fresh" (lines 675-677) or "done"
CallAt(at, v, r) == [pc |-> at, val |-> v, ret |-> r]
NoCall == CallAt("idle", "<none>", NoEntry)

(***************************************************************************)
(* State.                                                                  *)
(***************************************************************************)
VARIABLES
    pc,       \* "idle", "factory" (_args[key] taken), "built", "error", "called"
    form,     \* how the factory was reached: "getitem" or "call"
    rawkey,   \* the key as the caller wrote it
    key,      \* the key the closure captured
    pos,      \* the positional predicate given to the factory, or NoPred
    kwp,      \* the keyword predicates given to the factory
    err,      \* the exception the build raised, or "none"
    args,     \* the positional arguments of the last call
    kwargs,   \* the keyword arguments of the last call
    result,   \* what the last call returned, or "unset"
    invoked,  \* the leaf applications of the last call, in order
    reused,   \* the last call came after a call with another argument count
    tree,     \* the predicate a boolean combinator built, or NoTree
    raised,   \* the exception the last call raised, or "none"
    given,    \* atleast, atmost and exactly as the caller gave them
    bound,    \* what the closure of _nis or _inkw captured, or NoBound
    memo,     \* __cache_return: for each key, the closure it holds, or NoEntry
    calls,    \* for each caller of _return, where its call stands
    made,     \* the number of closures _return has made so far
    again     \* the last call repeated the arguments of the call before it

\* the predicate under construction or in use and its last call
predvars == << pc, form, rawkey, key, pos, kwp, err, args, kwargs, result, invoked,
               reused, tree, raised, given, bound, again >>

vars == << pc, form, rawkey, key, pos, kwp, err, args, kwargs, result, invoked,
           reused, tree, raised, given, bound, memo, calls, made, again >>

\* the value of rawkey and key while no key is held
NoKey == SliceKey(None, None, None)

\* the value of tree while no combinator's predicate is held
NoTree == Leaf("")

ArgSeqs == UNION {[1 .. n -> ArgValues] : n \in 0 .. MaxArgs}

Init ==
    /\ pc = "idle"
    /\ form = "none"
    /\ rawkey = NoKey
    /\ key = NoKey
    /\ pos = NoPred
    /\ kwp = EmptyDict
    /\ err = "none"
    /\ args = << >>
    /\ kwargs = EmptyDict
    /\ result = "unset"
    /\ invoked = << >>
    /\ reused = FALSE
    /\ tree = NoTree
    /\ raised = "none"
    /\ given = NoSpec
    /\ bound = NoBound
    /\ memo = ImportedMemo
    /\ calls = [t \in Callers |-> NoCall]
    /\ made = Cardinality({k \in MemoKeys : ImportedMemo[k] # NoEntry})
    /\ again = FALSE

NoCallYet ==
    /\ args' = << >>
    /\ kwargs' = EmptyDict
    /\ result' = "unset"
    /\ invoked' = << >>
    /\ reused' = FALSE
    /\ raised' = "none"
    /\ again' = FALSE

\* ArgSlicer.__getitem__(key), lines 328-344 and 384
GetItem(k) ==
    /\ UNCHANGED << memo, calls, made >>
    /\ pc = "idle"
    /\ pc' = "factory"
    /\ form' = "getitem"
    /\ rawkey' = k
    /\ key' = NormKey(k)
    /\ pos' = NoPred
    /\ kwp' = EmptyDict
    /\ err' = "none"
    /\ UNCHANGED << tree, given, bound >>
    /\ NoCallYet

\* _args_factory(pos_predicate, **kw_predicates), lines 345-383
Factory(p, kw) ==
    /\ UNCHANGED << memo, calls, made >>
    /\ pc = "factory"
    /\ pos' = p
    /\ kwp' = kw
    /\ IF InvalidSpec(p, kw)
       THEN pc' = "error" /\ err' = "ValueError"
       ELSE pc' = "built" /\ err' = "none"
    /\ UNCHANGED << form, rawkey, key, tree, given, bound >>
    /\ NoCallYet

\* ArgSlicer.__call__(pos_predicate, **kwargs), lines 320-326: self[:](...)
ArgsCall(p, kw) ==
    /\ UNCHANGED << memo, calls, made >>
    /\ pc = "idle"
    /\ pc' = IF InvalidSpec(p, kw) THEN "error" ELSE "built"
    /\ err' = IF InvalidSpec(p, kw) THEN "ValueError" ELSE "none"
    /\ form' = "call"
    /\ rawkey' = CallKey
    /\ key' = NormKey(CallKey)
    /\ pos' = p
    /\ kwp' = kw
    /\ UNCHANGED << tree, given, bound >>
    /\ NoCallYet

\* the predicate called: the closure _args of lines 362, 373 or 378
Call(a, kw, ord) ==
    /\ UNCHANGED << memo, calls, made >>
    /\ pc \in {"built", "called"}
    /\ LET r == ArgsApply(Closure(key, pos, kwp), a, kw, ord)
       IN  /\ result' = r.ret
           /\ invoked' = r.inv
    /\ pc' = "called"
    /\ args' = a
    /\ kwargs' = kw
    /\ key' = KeyAfterCall(key, Len(a))
    /\ reused' = (pc = "called" /\ Len(args) # Len(a))
    /\ again' = (pc = "called" /\ args = a /\ kwargs = kw)
    /\ raised' = "none"
    /\ UNCHANGED << form, rawkey, pos, kwp, err, tree, given, bound >>

\* the caller drops the factory or predicate it holds
Discard ==
    /\ UNCHANGED << memo, calls, made >>
    /\ pc # "idle"
    /\ pc' = "idle"
    /\ form' = "none"
    /\ rawkey' = NoKey
    /\ key' = NoKey
    /\ pos' = NoPred
    /\ kwp' = EmptyDict
    /\ err' = "none"
    /\ tree' = NoTree
    /\ given' = NoSpec
    /\ bound' = NoBound
    /\ NoCallYet

(***************************************************************************)
(* SpecPos: positional-only slice predicates _args[key](p), every key.     *)
(***************************************************************************)
PosLeaves == {"isstring", "isint"}
\* the keyword arguments the calls of SpecPos carry
PosKwargs == {EmptyDict, [k \in KwNames |-> IF k = "kate" THEN "'jack'" ELSE Missing]}

GetItemPos == \E k \in Keys : GetItem(k)
FactoryPos == \E p \in PosLeaves : Factory(p, EmptyDict)
\* the same predicate object is called again and again; the history kept is
\* whether the call before had another argument count
CallPos == \E a \in ArgSeqs, kw \in PosKwargs : ~reused /\ Call(a, kw, << >>)

NextPos == GetItemPos \/ FactoryPos \/ CallPos \/ Discard

SpecPos == Init /\ [][NextPos]_vars

(***************************************************************************)
(* Spec: every form of the factory (keyed and unkeyed; positional,         *)
(* keyword and both), over a few keys.                                     *)
(***************************************************************************)
FewKeys == {IntKey(0), IntKey(-1), SliceKey(None, None, None),
            SliceKey(Some(0), Some(2), None), SliceKey(Some(1), None, Some(2))}
PosChoices == PosLeaves \cup {NoPred}
KwLeaves == {"isstring", "isnone"}
KwPredChoices == [KwNames -> KwLeaves \cup {Missing}]

GetItemFew == \E k \in FewKeys : GetItem(k)
FactoryAny == \E p \in PosChoices, kw \in KwPredChoices : Factory(p, kw)
ArgsCallAny == \E p \in PosChoices, kw \in KwPredChoices : ArgsCall(p, kw)
\* each predicate object built here is called once
CallAny ==
    \E a \in ArgSeqs, kw \in KwArgDicts :
        \E ord \in ItemOrders(kwp) : pc = "built" /\ Call(a, kw, ord)

Next == GetItemFew \/ FactoryAny \/ ArgsCallAny \/ CallAny \/ Discard

Spec == Init /\ [][Next]_vars

(***************************************************************************)
(* SpecBool: predicates built by _and, _or and _not over leaves and over   *)
(* nested combinators, applied to calls of no or one positional argument.  *)
(***************************************************************************)
\* the most predicates given to one combinator
MaxPreds == 2

BoolOps == {"and", "or", "not"}
BoolValues == {"()", "42", "''", "'jack'"}
BoolCalls == {<< >>} \cup {<< v >> : v \in BoolValues}

\* the predicate tuples of the nested combinators
NestedTuples == {<< >>, << Leaf("isstring") >>, << Leaf("isempty"), Leaf("isatom") >>}
Kids == {Leaf(n) : n \in ValueLeaves \cup ConstLeaves \cup RaisingLeaves \cup PassLeaves}
            \cup {Node(op, ps) : op \in BoolOps, ps \in NestedTuples}
KidTuples == UNION {[1 .. n -> Kids] : n \in 0 .. MaxPreds}

\* the factories _and, _or, _not given a tuple of predicates: lines 35, 44, 53
Compose(op, ps) ==
    /\ UNCHANGED << memo, calls, made >>
    /\ pc = "idle"
    /\ pc' = "built"
    /\ form' = "bool"
    /\ tree' = Node(op, ps)
    /\ UNCHANGED << rawkey, key, pos, kwp, err, given, bound >>
    /\ NoCallYet

\* the predicate called: the closures of lines 40, 49, 58, 81 and 96, 105, 114
CallTree(a, kw) ==
    /\ UNCHANGED << memo, calls, made >>
    /\ pc = "built"
    /\ form \in {"bool", "quant", "zip"}
    /\ LET r == EvalPred(tree, a, kw)
       IN  /\ result' = r.ret
           /\ raised' = r.exc
           /\ invoked' = r.inv
    /\ pc' = "called"
    /\ args' = a
    /\ kwargs' = kw
    /\ UNCHANGED << form, rawkey, key, pos, kwp, err, reused, tree, given, bound, again >>

ComposeAny == \E op \in BoolOps, ps \in KidTuples : Compose(op, ps)
CallTreeAny == \E a \in BoolCalls : CallTree(a, EmptyDict)

NextBool == ComposeAny \/ CallTreeAny \/ Discard

SpecBool == Init /\ [][NextBool]_vars

(***************************************************************************)
(* The quantifiers, as test_all, test_any, test_none and test_short_circuit *)
(* drive them: one of _all, _any, _none over one predicate of a value,     *)
(* then one call.                                                          *)
(***************************************************************************)
QuantOps == {"all", "any", "none"}
QuantValues == {"True", "False", "'fail'", "'jack'", "()"}
QuantPreds == {Leaf("isstring"), Leaf("isempty"), Leaf("passfail"),
               Node("or", << Leaf("isempty"), Leaf("isatom") >>)}
QuantCalls == UNION {[1 .. n -> QuantValues] : n \in 0 .. MaxArgs}
QuantKwargs == {EmptyDict, [k \in KwNames |-> IF k = "jack" THEN "'jack'" ELSE Missing],
                [k \in KwNames |-> "'fail'"]}

\* the factories _all, _any, _none given their predicate: lines 91, 100, 109
Quantify(op, p) ==
    /\ UNCHANGED << memo, calls, made >>
    /\ pc = "idle"
    /\ pc' = "built"
    /\ form' = "quant"
    /\ tree' = Node(op, << p >>)
    /\ UNCHANGED << rawkey, key, pos, kwp, err, given, bound >>
    /\ NoCallYet

QuantifyAny == \E op \in QuantOps, p \in QuantPreds : Quantify(op, p)
CallQuantAny == \E a \in QuantCalls, kw \in QuantKwargs : CallTree(a, kw)

NextQuant == QuantifyAny \/ CallQuantAny \/ Discard

SpecQuant == Init /\ [][NextQuant]_vars

(***************************************************************************)
(* _zip, as test_zip drives it: a tuple of predicates of one value, then   *)
(* one call.                                                               *)
(***************************************************************************)
ZipValues == {"'jack'", "'fail'", "()", "(1,)"}
ZipPreds == {Leaf("isstring"), Leaf("isempty"), Leaf("isnsiterable"), Leaf("passfail")}
ZipTuples == UNION {[1 .. n -> ZipPreds] : n \in 0 .. MaxPreds}
ZipCalls == UNION {[1 .. n -> ZipValues] : n \in 0 .. MaxArgs}
ZipKwargs == {EmptyDict, [k \in KwNames |-> "'jack'"]}

\* the factory _zip given its predicates: line 62
ZipOf(ps) ==
    /\ UNCHANGED << memo, calls, made >>
    /\ pc = "idle"
    /\ pc' = "built"
    /\ form' = "zip"
    /\ tree' = Node("zip", ps)
    /\ UNCHANGED << rawkey, key, pos, kwp, err, given, bound >>
    /\ NoCallYet

ZipOfAny == \E ps \in ZipTuples : ZipOf(ps)
CallZipAny == \E a \in ZipCalls, kw \in ZipKwargs : CallTree(a, kw)

NextZip == ZipOfAny \/ CallZipAny \/ Discard

SpecZip == Init /\ [][NextZip]_vars

(***************************************************************************)
(* The numeric range predicate and the counters, as                        *)
(* TestNumericRangePredicates and TestArgCountPredicates drive them: a     *)
(* factory given its limits, then, if it did not raise, one call.          *)
(***************************************************************************)
CountInts == -1 .. CountBound
OptCounts == {None} \cup {Some(i) : i \in CountInts}
CountSpecs == {CountSpec(lo, hi, ex) : lo \in OptCounts, hi \in OptCounts, ex \in OptCounts}
\* the numbers a range predicate is applied to
Numbers == 0 .. CountBound + 1

\* _nis(...) of lines 682-718, and _nargs, _npos, _nkw(...) through _fnis, line 730
NisFactory(fn, s) ==
    /\ UNCHANGED << memo, calls, made >>
    /\ pc = "idle"
    /\ form' = fn
    /\ given' = s
    /\ IF NisInvalid(s)
       THEN pc' = "error" /\ err' = "ValueError" /\ bound' = NoBound
       ELSE pc' = "built" /\ err' = "none" /\ bound' = NisClosure(s)
    /\ UNCHANGED << rawkey, key, pos, kwp, tree >>
    /\ NoCallYet

\* the closure of _nis applied to a number: lines 702-703, 716-717
NisCall(n) ==
    /\ UNCHANGED << memo, calls, made >>
    /\ pc = "built"
    /\ form = "nis"
    /\ pc' = "called"
    /\ args' = << n >>
    /\ kwargs' = EmptyDict
    /\ result' = PyBool(NisApply(bound, n))
    /\ raised' = "none"
    /\ invoked' = << >>
    /\ UNCHANGED << form, rawkey, key, pos, kwp, err, reused, tree, given, bound, again >>

\* the closure of _fnis applied to a call: lines 731-732
FnisCall(a, kw) ==
    /\ UNCHANGED << memo, calls, made >>
    /\ pc = "built"
    /\ form \in Counters
    /\ pc' = "called"
    /\ args' = a
    /\ kwargs' = kw
    /\ result' = PyBool(FnisApply(bound, form, a, kw))
    /\ raised' = "none"
    /\ invoked' = << >>
    /\ UNCHANGED << form, rawkey, key, pos, kwp, err, reused, tree, given, bound, again >>

NisFactoryAny == \E fn \in {"nis"} \cup Counters, s \in CountSpecs : NisFactory(fn, s)
NisCallAny == \E n \in Numbers : NisCall(n)
FnisCallAny == \E a \in ArgSeqs, kw \in KwArgDicts : FnisCall(a, kw)

NextCount == NisFactoryAny \/ NisCallAny \/ FnisCallAny \/ Discard

SpecCount == Init /\ [][NextCount]_vars

(***************************************************************************)
(* The keyword presence predicate, as TestKeywordArgPresencePredicates     *)
(* drives it: _inkw given its collections, then, if it did not raise, one  *)
(* call.                                                                   *)
(***************************************************************************)
\* the names of a specification: those a call may carry, and one it never does
SpecNames == KwNames \cup {"sawyer"}
NameSeqs == UNION {[1 .. n -> SpecNames] : n \in 0 .. MaxNames}
Distinct(q) == \A i, j \in DOMAIN q : q[i] = q[j] => i = j
Collections == {TupleOf(q) : q \in NameSeqs}
                   \cup {DictOf(q) : q \in {r \in NameSeqs : Distinct(r)}}
OptColls == {None} \cup {Some(c) : c \in Collections}
\* the collections of the specifications that mix exactly with another parameter
MixColls == {None, Some(TupleOf(<< >>)), Some(DictOf(<< >>)), Some(TupleOf(<< "jack" >>))}
InkwSpecs == {CountSpec(lo, hi, None) : lo \in OptColls, hi \in OptColls}
                 \cup {CountSpec(None, None, ex) : ex \in OptColls}
                 \cup {CountSpec(lo, hi, ex) : lo \in MixColls, hi \in MixColls,
                                                ex \in MixColls \ {None}}
InkwArgs == {<< >>, << "42", "'jack'" >>}

\* _inkw(...) of lines 430-476
InkwFactory(s) ==
    /\ UNCHANGED << memo, calls, made >>
    /\ pc = "idle"
    /\ form' = "inkw"
    /\ given' = s
    /\ IF InkwInvalid(s)
       THEN pc' = "error" /\ err' = "ValueError" /\ bound' = NoBound
       ELSE pc' = "built" /\ err' = "none" /\ bound' = InkwClosure(s)
    /\ UNCHANGED << rawkey, key, pos, kwp, tree >>
    /\ NoCallYet

\* the closure of _inkw applied to a call: lines 453-455, 466-468, 473-475
InkwCall(a, kw) ==
    /\ UNCHANGED << memo, calls, made >>
    /\ pc = "built"
    /\ form = "inkw"
    /\ pc' = "called"
    /\ args' = a
    /\ kwargs' = kw
    /\ result' = PyBool(InkwApply(bound, kw))
    /\ raised' = "none"
    /\ invoked' = << >>
    /\ UNCHANGED << form, rawkey, key, pos, kwp, err, reused, tree, given, bound, again >>

InkwFactoryAny == \E s \in InkwSpecs : InkwFactory(s)
InkwCallAny == \E a \in InkwArgs, kw \in KwArgDicts : InkwCall(a, kw)

NextInkw == InkwFactoryAny \/ InkwCallAny \/ Discard

SpecInkw == Init /\ [][NextInkw]_vars

(***************************************************************************)
(* The predicates of one value, as TestTypePredicates and                  *)
(* TestIdentityPredicates drive them: a module-level predicate applied to  *)
(* one value.                                                              *)
(***************************************************************************)
ScalarPreds == {"isempty", "isstring", "isatom", "isnsiterable", "issized", "isiterable",
                "isint", "isbool", "istuple", "islist", "ismap", "isnone"}
ScalarValues == {"None", "0", "False", "True", "42", "''", "' '", "'jack'",
                 "()", "(1,)", "[]", "{}"}

\* name(v) for a predicate of the module: lines 482-491, 558-597, 617
ApplyScalar(name, v) ==
    /\ UNCHANGED << memo, calls, made >>
    /\ pc = "idle"
    /\ pc' = "called"
    /\ form' = "value"
    /\ tree' = Leaf(name)
    /\ LET r == LeafCall(name, << v >>, EmptyDict)
       IN  /\ result' = r.ret
           /\ raised' = r.exc
           /\ invoked' = r.inv
    /\ args' = << v >>
    /\ kwargs' = EmptyDict
    /\ UNCHANGED << rawkey, key, pos, kwp, err, reused, given, bound, again >>

ApplyScalarAny == \E name \in ScalarPreds, v \in ScalarValues : ApplyScalar(name, v)

NextScalar == ApplyScalarAny \/ Discard

SpecScalar == Init /\ [][NextScalar]_vars

(***************************************************************************)
(* _return, statement by statement.  One caller at a time runs it in       *)
(* sequential use; threads that call it concurrently interleave between    *)
(* the statements, each of which the interpreter runs as a whole.          *)
(***************************************************************************)
InProgress(t) == calls[t].pc \notin {"idle", "done"}

\* _return(val) entered: the test ishashable(val) of line 668
ReturnBegin(t, v) ==
    /\ ~InProgress(t)
    /\ made + Cardinality({u \in Callers : InProgress(u)}) < MaxMade
    /\ calls' = [calls EXCEPT ![t] =
                     CallAt(IF Hashable(v) THEN "lookup" ELSE "fresh", v, NoEntry)]
    /\ UNCHANGED << memo, made >>
    /\ UNCHANGED predvars

\* if val not in __cache_return, line 669
ReturnLookup(t) ==
    /\ calls[t].pc = "lookup"
    /\ calls' = [calls EXCEPT ![t].pc =
                     IF MemoHas(memo, calls[t].val) THEN "fetch" ELSE "insert"]
    /\ UNCHANGED << memo, made >>
    /\ UNCHANGED predvars

\* the closure made and stored, lines 670-672
ReturnInsert(t) ==
    /\ calls[t].pc = "insert"
    /\ made' = made + 1
    /\ memo' = MemoPut(memo, calls[t].val, Closure_(made + 1, calls[t].val))
    /\ calls' = [calls EXCEPT ![t].pc = "fetch"]
    /\ UNCHANGED predvars

\* return __cache_return[val], line 673
ReturnFetch(t) ==
    /\ calls[t].pc = "fetch"
    /\ calls' = [calls EXCEPT ![t].pc = "done", ![t].ret = MemoGet(memo, calls[t].val)]
    /\ UNCHANGED << memo, made >>
    /\ UNCHANGED predvars

\* the closure made for a value that is not hashable, and returned: lines 675-677
ReturnFresh(t) ==
    /\ calls[t].pc = "fresh"
    /\ made' = made + 1
    /\ calls' = [calls EXCEPT ![t].pc = "done",
                              ![t].ret = Closure_(made + 1, calls[t].val)]
    /\ UNCHANGED memo
    /\ UNCHANGED predvars

\* a call entered while no other call is in progress
ReturnBeginAlone(t, v) ==
    /\ \A u \in Callers : ~InProgress(u)
    /\ ReturnBegin(t, v)

BeginAloneAny == \E t \in Callers, v \in ReturnValues : ReturnBeginAlone(t, v)
BeginAny == \E t \in Callers, v \in ReturnValues : ReturnBegin(t, v)
LookupAny == \E t \in Callers : ReturnLookup(t)
InsertAny == \E t \in Callers : ReturnInsert(t)
FetchAny == \E t \in Callers : ReturnFetch(t)
FreshAny == \E t \in Callers : ReturnFresh(t)

\* sequential use
NextMemo == BeginAloneAny \/ LookupAny \/ InsertAny \/ FetchAny \/ FreshAny

SpecMemo == Init /\ [][NextMemo]_vars

\* concurrent use
NextThreads == BeginAny \/ LookupAny \/ InsertAny \/ FetchAny \/ FreshAny

SpecThreads == Init /\ [][NextThreads]_vars

(***************************************************************************)
(* SpecFrame: one predicate of each combinator, called any number of times *)
(* while a caller of _return makes the memo grow between the calls.        *)
(***************************************************************************)
\* the closure's tuple of predicates read through an iterator that a call
\* leaves exhausted
PredicatesExhausted(t) == IF t = NoTree THEN t ELSE Node(t.op, << >>)

\* lines 40, 49, 58, 81-84, 96, 105, 114: a call iterates over the captured
\* tuple predicates (or applies the captured predicate) and leaves it as it is
PredicatesAfterCall(t) == t

\* what the predicate held returns or raises on a call, by the combinator
\* that built it
Outcome(a, kw, ord) ==
    CASE form \in {"getitem", "call"} ->
             LET r == ArgsApply(Closure(key, pos, kwp), a, kw, ord)
             IN  [ret |-> r.ret, exc |-> "none", inv |-> r.inv]
      [] form \in {"bool", "quant", "zip"} -> EvalPred(tree, a, kw)
      [] form = "nis" ->
             [ret |-> PyBool(NisApply(bound, a[1])), exc |-> "none", inv |-> << >>]
      [] form \in Counters ->
             [ret |-> PyBool(FnisApply(bound, form, a, kw)), exc |-> "none", inv |-> << >>]
      [] form = "inkw" ->
             [ret |-> PyBool(InkwApply(bound, kw)), exc |-> "none", inv |-> << >>]

\* the predicate held called, for the first time or again: the closures of
\* lines 40, 49, 58, 81, 96, 105, 114, 362, 373, 378, 453, 466, 473, 702, 716, 731
Evaluate(a, kw, ord) ==
    /\ pc \in {"built", "called"}
    /\ LET r == Outcome(a, kw, ord)
       IN  /\ result' = r.ret
           /\ raised' = r.exc
           /\ invoked' = r.inv
    /\ pc' = "called"
    /\ args' = a
    /\ kwargs' = kw
    /\ key' = KeyAfterCall(key, Len(a))
    /\ tree' = PredicatesAfterCall(tree)
    /\ reused' = (pc = "called" /\ Len(args) # Len(a))
    /\ again' = (pc = "called" /\ args = a /\ kwargs = kw)
    /\ UNCHANGED << form, rawkey, pos, kwp, err, given, bound >>
    /\ UNCHANGED << memo, calls, made >>

FrameKwPreds == {EmptyDict, [k \in KwNames |-> IF k = "jack" THEN "isstring" ELSE Missing]}
FrameFactories == {<< "isstring", f >> : f \in FrameKwPreds}
                      \cup {<< NoPred, f >> : f \in FrameKwPreds \ {EmptyDict}}
FrameCalls == {<< >>, << "'jack'" >>, << "42" >>, << "'jack'", "42" >>,
               << "'jack'", "'jack'" >>}
FrameKwargs == {EmptyDict, [k \in KwNames |-> IF k = "jack" THEN "'jack'" ELSE Missing],
                [k \in KwNames |-> IF k = "jack" THEN "42" ELSE "None"]}

FrameGetItem == \E k \in {IntKey(0), SliceKey(Some(1), None, None)} : GetItem(k)
FrameFactory == \E f \in FrameFactories : Factory(f[1], f[2])
FrameArgsCall == \E f \in FrameFactories : ArgsCall(f[1], f[2])
FrameCompose ==
    \E t \in {<< "and", << Leaf("isstring"), Leaf("isatom") >> >>,
              << "or", << Leaf("isempty"), Leaf("passfail") >> >>,
              << "not", << Leaf("isempty"), Leaf("fail") >> >>} : Compose(t[1], t[2])
FrameQuantify == \E op \in QuantOps : Quantify(op, Leaf("isstring"))
FrameZipOf == ZipOf(<< Leaf("isstring"), Leaf("isempty") >>)
FrameNisFactory ==
    \E fn \in {"nis"} \cup Counters :
        \E s \in {CountSpec(Some(1), None, None), CountSpec(None, None, Some(2))} :
            NisFactory(fn, s)
FrameInkwFactory ==
    \E s \in {CountSpec(Some(TupleOf(<< "jack" >>)), None, None),
              CountSpec(None, None, Some(TupleOf(<< "jack", "kate" >>)))} : InkwFactory(s)
FrameEvaluate ==
    \E a \in IF form = "nis" THEN {<< n >> : n \in Numbers} ELSE FrameCalls :
        \E kw \in IF form = "nis" THEN {EmptyDict} ELSE FrameKwargs :
            \E ord \in ItemOrders(kwp) : Evaluate(a, kw, ord)
FrameBegin == \E v \in {"'jack'", "1", "[]"} : ReturnBeginAlone("t1", v)

NextFrame ==
    \/ FrameGetItem \/ FrameFactory \/ FrameArgsCall \/ FrameCompose \/ FrameQuantify
    \/ FrameZipOf \/ FrameNisFactory \/ FrameInkwFactory \/ FrameEvaluate \/ Discard
    \/ FrameBegin \/ LookupAny \/ InsertAny \/ FetchAny \/ FreshAny

SpecFrame == Init /\ [][NextFrame]_vars

(***************************************************************************)
(* What the claims speak of: the selection args[key] as Python defines it, *)
(* stated as the set of selected positions (0-based) rather than computed  *)
(* the way the interpreter resolves a slice.                               *)
(***************************************************************************)
Max2(a, b) == IF a > b THEN a ELSE b
Min2(a, b) == IF a < b THEN a ELSE b

PySelected(start, stop, step, n) ==
    LET k == IF IsNone(step) THEN 1 ELSE Val(step)
    IN  IF k > 0
        THEN LET lo == IF IsNone(start) THEN 0
                       ELSE IF Val(start) < 0 THEN Max2(Val(start) + n, 0) ELSE Val(start)
                 hi == IF IsNone(stop) THEN n
                       ELSE IF Val(stop) < 0 THEN Val(stop) + n ELSE Val(stop)
             IN  {x \in 0 .. n - 1 : x >= lo /\ x < hi /\ (x - lo) % k = 0}
        ELSE LET hi == IF IsNone(start) THEN n - 1
                       ELSE IF Val(start) < 0 THEN Val(start) + n
                       ELSE Min2(Val(start), n - 1)
                 lo == IF IsNone(stop) THEN -1
                       ELSE IF Val(stop) < 0 THEN Max2(Val(stop) + n, -1) ELSE Val(stop)
             IN  {x \in 0 .. n - 1 : x <= hi /\ x > lo /\ (hi - x) % (-k) = 0}

\* the positions a key selects of n arguments: an integer i >= 0 stands for
\* [i, i+1), an integer i < 0 for [i, end)
Selected(k, n) ==
    IF k.isint
    THEN IF k.i >= 0 THEN PySelected(Some(k.i), Some(k.i + 1), None, n)
         ELSE PySelected(Some(k.i), None, None, n)
    ELSE PySelected(k.start, k.stop, k.step, n)

Holds(p, v) == Truth(LeafApply(p, v))

PosOnlyCalled == pc = "called" /\ pos # NoPred /\ DictKeys(kwp) = {}
KwOnlyCalled == pc = "called" /\ pos = NoPred /\ DictKeys(kwp) # {}
BothCalled == pc = "called" /\ pos # NoPred /\ DictKeys(kwp) # {}

\* the predicate object the state holds, and a freshly built one
Held == Closure(key, pos, kwp)
Fresh(k) == Closure(NormKey(k), pos, kwp)

(***************************************************************************)
(* C1  Positional-only slice predicate: _args[key](p) applied to a call is *)
(* true iff p holds for every element of args[key] under Python's slice    *)
(* semantics, for integer keys and slices with any start, stop and         *)
(* non-zero step; the keyword arguments of the call and the positional     *)
(* arguments outside the selection do not influence the result.            *)
(***************************************************************************)
C1_PosSliceSemantics ==
    PosOnlyCalled =>
        LET sel == Selected(rawkey, Len(args))
        IN  /\ result = PyBool(\A x \in sel : Holds(pos, args[x + 1]))
            /\ \A kw \in PosKwargs : ArgsApply(Held, args, kw, << >>).ret = result
            /\ \A a \in [1 .. Len(args) -> ArgValues] :
                   (\A x \in sel : a[x + 1] = args[x + 1])
                       => ArgsApply(Held, a, kwargs, << >>).ret = result

\* a step of 2 selects two of three arguments; the one skipped fails p, a
\* keyword argument is passed, and the predicate is true
C1_Witness ==
    /\ PosOnlyCalled
    /\ ~rawkey.isint /\ rawkey.step = Some(2)
    /\ Len(args) = 3
    /\ Selected(rawkey, 3) = {0, 2}
    /\ ~Holds(pos, args[2])
    /\ kwargs # EmptyDict
    /\ result = PyTrue

C3_ResolvedPerCall ==
    (pc = "called" /\ reused) =>
        /\ result = ArgsApply(Fresh(rawkey), args, kwargs, << >>).ret
        /\ result = PyBool(\A x \in Selected(rawkey, Len(args)) : Holds(pos, args[x + 1]))

\* _args[-1](isstring) reused on three arguments after a call with another
\* count: it tests the third argument
C3_Witness ==
    /\ pc = "called" /\ reused
    /\ rawkey = IntKey(-1) /\ pos = "isstring"
    /\ args = << "42", "42", "'jack'" >>
    /\ result = PyTrue

(***************************************************************************)
(* C4  Empty selection is vacuously true.                                  *)
(***************************************************************************)
NothingInvoked == invoked = << >>

\* the integer key or slice start is negative and exceeds the argument count
NegStartExceeds(k, n) ==
    IF k.isint THEN k.i < 0 /\ -k.i > n
    ELSE ~IsNone(k.start) /\ Val(k.start) < 0 /\ -Val(k.start) > n

C5_NoPredicateRejected ==
    (pc \in {"built", "error", "called"} /\ pos = NoPred /\ DictKeys(kwp) = {})
        => (pc = "error" /\ err = "ValueError" /\ result = "unset" /\ NothingInvoked)

\* _args[-1]() has raised
C5_Witness ==
    /\ pc = "error" /\ err = "ValueError"
    /\ form = "getitem" /\ rawkey = IntKey(-1)
    /\ pos = NoPred /\ DictKeys(kwp) = {}

(***************************************************************************)
(* C6  Keyword-only slice predicate: the result is true iff every named    *)
(* predicate is true of the call's value for its name, or of the value     *)
(* presented for an absent name (None, see C7) when the call does not pass *)
(* the name; positional arguments, keyword arguments that are not named    *)
(* and the order of the items do not influence the result.                 *)
(***************************************************************************)
Presented(kw, name) == IF kw[name] = Missing THEN NoneV ELSE kw[name]

C6_KwOnlySemantics ==
    KwOnlyCalled =>
        /\ result = PyBool(\A name \in DictKeys(kwp) :
                               Holds(kwp[name], Presented(kwargs, name)))
        /\ \A a \in ArgSeqs, ord \in ItemOrders(kwp) :
               ArgsApply(Held, a, kwargs, ord).ret = result
        /\ \A kw \in KwArgDicts, ord \in ItemOrders(kwp) :
               (\A name \in DictKeys(kwp) : kw[name] = kwargs[name])
                   => ArgsApply(Held, args, kw, ord).ret = result

\* two names constrained; the call passes positional arguments and one of
\* the names, whose predicate accepts it; the other name is absent and
\* its predicate rejects the value presented
C6_Witness ==
    /\ KwOnlyCalled
    /\ DictKeys(kwp) = KwNames
    /\ Len(args) > 0
    /\ kwargs["jack"] # Missing /\ Holds(kwp["jack"], kwargs["jack"])
    /\ kwargs["kate"] = Missing /\ kwp["kate"] = "isstring"
    /\ result = PyFalse

(***************************************************************************)
(* C7  Keyword absence sentinel, as claimed: the value presented to the    *)
(* predicate of a name the call does not pass is distinct from every       *)
(* legitimate argument value, None included.                               *)
(***************************************************************************)
C7_AbsentMarkerDistinct ==
    pc = "called" =>
        \A i \in DOMAIN invoked :
            (invoked[i].at \in KwNames /\ kwargs[invoked[i].at] = Missing)
                => invoked[i].arg \notin Values

(***************************************************************************)
(* C8  Combined positional and keyword slice predicate: the result is the  *)
(* logical AND of what _args[key](p) gives on the positional arguments and *)
(* what the keyword-only predicate of kw_predicates gives on the keyword    *)
(* arguments; it is false when a named argument is absent and its          *)
(* predicate rejects the value presented for it.                           *)
(***************************************************************************)
C8_BothIsConjunction ==
    BothCalled =>
        LET posonly == ArgsApply(Closure(NormKey(rawkey), pos, EmptyDict),
                                 args, EmptyDict, << >>).ret
        IN  /\ \A ord \in ItemOrders(kwp) :
                  result = PyBool(Truth(posonly) /\
                      Truth(ArgsApply(Closure(NormKey(SliceKey(None, None, None)), NoPred, kwp),
                                      << >>, kwargs, ord).ret))
            /\ (\E name \in DictKeys(kwp) :
                    kwargs[name] = Missing /\ ~Holds(kwp[name], Presented(kwargs, name)))
                   => result = PyFalse

\* every selected positional argument passes, one constrained name is
\* absent and its predicate rejects the value presented
C8_Witness ==
    /\ BothCalled
    /\ Selected(rawkey, Len(args)) # {}
    /\ \A x \in Selected(rawkey, Len(args)) : Holds(pos, args[x + 1])
    /\ \E name \in DictKeys(kwp) : kwargs[name] = Missing /\ kwp[name] = "isstring"
    /\ result = PyFalse

(***************************************************************************)
(* C9  The unkeyed form _args(p, **kw) is _args[:](p, **kw): both raise    *)
(* ValueError at build time, or both build predicates that give the same   *)
(* result on every call.                                                   *)
(***************************************************************************)
C9_UnkeyedIsFullSlice ==
    (form = "call" /\ pc \in {"built", "error", "called"}) =>
        LET full == SliceKey(None, None, None)
        IN  /\ (pc = "error") = InvalidSpec(pos, kwp)
            /\ pc = "error" => err = "ValueError"
            /\ pc = "built" => Held = Closure(NormKey(full), pos, kwp)
            /\ pc = "called" =>
                   \A ord \in ItemOrders(kwp) :
                       result = ArgsApply(Closure(NormKey(full), pos, kwp),
                                          args, kwargs, ord).ret

\* _args(p) on three arguments of which only the last fails p
C9_Witness ==
    /\ form = "call" /\ PosOnlyCalled
    /\ Len(args) = 3
    /\ Holds(pos, args[1]) /\ Holds(pos, args[2]) /\ ~Holds(pos, args[3])
    /\ result = PyFalse

(***************************************************************************)
(* C10  Boolean combinators compute the pointwise combination: on a call   *)
(* on which no leaf raises, _and(p1..pn) is true iff every pi is true of   *)
(* the call, _or(p1..pn) iff at least one is, _not(p1..pn) iff none is;    *)
(* with n = 0 they are always true, always false and always true; a        *)
(* nesting equals the same boolean formula over the leaf results.          *)
(***************************************************************************)
\* the boolean formula a predicate tree denotes, over its leaves' results
RECURSIVE Denotes(_, _, _)
Denotes(t, a, kw) ==
    CASE t.op = "leaf" -> Truth(LeafCall(t.leaf, a, kw).ret)
      [] t.op = "and"  -> \A i \in DOMAIN t.subs : Denotes(t.subs[i], a, kw)
      [] t.op = "or"   -> \E i \in DOMAIN t.subs : Denotes(t.subs[i], a, kw)
      [] t.op = "not"  -> ~(\E i \in DOMAIN t.subs : Denotes(t.subs[i], a, kw))

\* no leaf of the tree raises on the call
RECURSIVE NoLeafRaises(_, _, _)
NoLeafRaises(t, a, kw) ==
    IF t.op = "leaf" THEN LeafCall(t.leaf, a, kw).exc = "none"
    ELSE \A i \in DOMAIN t.subs : NoLeafRaises(t.subs[i], a, kw)

BoolCalled == pc = "called" /\ form = "bool"

C10_PointwiseCombination ==
    (BoolCalled /\ NoLeafRaises(tree, args, kwargs)) =>
        /\ raised = "none"
        /\ result = PyBool(Denotes(tree, args, kwargs))
        /\ tree.subs = << >> =>
               result = PyBool(tree.op \in {"and", "not"})

\* _and(_not(isstring), _or(isempty, isatom)) applied to the empty tuple
C10_Witness ==
    /\ BoolCalled
    /\ tree = Node("and", << Node("not", << Leaf("isstring") >>),
                             Node("or", << Leaf("isempty"), Leaf("isatom") >>) >>)
    /\ args = << "()" >>
    /\ raised = "none"
    /\ result = PyTrue

(***************************************************************************)
(* C11  Boolean combinators evaluate left to right and short-circuit: the  *)
(* predicates are invoked in the order given, each at most once, and none  *)
(* is invoked after the first that returns false (_and) or true (_or,      *)
(* _not).  So _and(false, fail) is false, _or(true, fail) is true and      *)
(* _not(true, fail) is false, none of them raising.                        *)
(***************************************************************************)
\* the i-th predicate of the held combinator, applied alone to the call
SubResult(i) == EvalPred(tree.subs[i], args, kwargs)

\* the i-th predicate ends the evaluation: it raises or decides the result
EndsAt(i) ==
    LET r == SubResult(i)
    IN  \/ r.exc # "none"
        \/ tree.op = "and" /\ ~Truth(r.ret)
        \/ tree.op \in {"or", "not"} /\ Truth(r.ret)

\* the last predicate invoked: the first that ends the evaluation, or the last
LastInvoked ==
    IF \E i \in DOMAIN tree.subs : EndsAt(i)
    THEN CHOOSE i \in DOMAIN tree.subs :
             EndsAt(i) /\ \A j \in DOMAIN tree.subs : j < i => ~EndsAt(j)
    ELSE Len(tree.subs)

\* the leaf applications of the predicates 1 .. k, each applied once, in order
RECURSIVE TraceUpTo(_)
TraceUpTo(k) == IF k = 0 THEN << >> ELSE TraceUpTo(k - 1) \o SubResult(k).inv

C11_ShortCircuit ==
    BoolCalled =>
        /\ invoked = TraceUpTo(LastInvoked)
        /\ (tree.op = "and" /\ \E i \in DOMAIN tree.subs :
                SubResult(i).exc = "none" /\ ~Truth(SubResult(i).ret)
                /\ \A j \in 1 .. i - 1 : SubResult(j).exc = "none")
               => (result = PyFalse /\ raised = "none")
        /\ (tree.op \in {"or", "not"} /\ \E i \in DOMAIN tree.subs :
                SubResult(i).exc = "none" /\ Truth(SubResult(i).ret)
                /\ \A j \in 1 .. i - 1 : SubResult(j).exc = "none")
               => (result = PyBool(tree.op = "or") /\ raised = "none")

\* _and(false_, fail) called: false, not raising, fail never invoked
C11_Witness ==
    /\ BoolCalled
    /\ tree = Node("and", << Leaf("false_"), Leaf("fail") >>)
    /\ result = PyFalse /\ raised = "none"
    /\ invoked = << Applied("false_", args, "call") >>

(***************************************************************************)
(* C12  Quantifiers range over the positional arguments only: for every    *)
(* predicate p of a value that raises on none of them, _all(p) is true iff *)
(* p holds for every positional argument, _any(p) iff it holds for at      *)
(* least one, _none(p) iff it holds for none; with no positional argument  *)
(* they return true, false and true; the keyword arguments of the call are *)
(* never passed to p and never change the result.                          *)
(***************************************************************************)
QuantCalled == pc = "called" /\ form = "quant"

\* the quantified predicate, and what it does on the i-th positional argument
QuantPred == tree.subs[1]
OnArg(i) == EvalPred(QuantPred, << args[i] >>, EmptyDict)
HoldsOn(i) == Truth(OnArg(i).ret)

\* what the quantifier says of the positional arguments
QuantTruth ==
    CASE tree.op = "all"  -> \A i \in DOMAIN args : HoldsOn(i)
      [] tree.op = "any"  -> \E i \in DOMAIN args : HoldsOn(i)
      [] tree.op = "none" -> \A i \in DOMAIN args : ~HoldsOn(i)

\* the same quantifier applied to the same positional arguments alone
WithoutKeywords == EvalPred(tree, args, EmptyDict)

C12_QuantifierSemantics ==
    QuantCalled =>
        /\ (\A i \in DOMAIN args : OnArg(i).exc = "none") =>
               /\ raised = "none"
               /\ result = PyBool(QuantTruth)
               /\ args = << >> => result = PyBool(tree.op \in {"all", "none"})
        /\ \A j \in DOMAIN invoked :
               /\ Len(invoked[j].arg) = 1
               /\ \E i \in DOMAIN args : invoked[j].arg = << args[i] >>
        /\ result = WithoutKeywords.ret
        /\ raised = WithoutKeywords.exc
        /\ invoked = WithoutKeywords.inv

\* _none(isstring) on a mixed call that carries a keyword argument
C12_Witness ==
    /\ QuantCalled
    /\ tree = Node("none", << Leaf("isstring") >>)
    /\ args = << "True", "'jack'" >>
    /\ DictKeys(kwargs) # {}
    /\ result = PyFalse /\ raised = "none"

(***************************************************************************)
(* C13  Quantifiers visit the positional arguments in order and            *)
(* short-circuit: _all(p) never applies p after the first argument for     *)
(* which p is false, _any(p) and _none(p) never after the first for which  *)
(* p is true; p is applied to each visited argument exactly once, so a     *)
(* later argument on which p would raise does not make the predicate raise.*)
(***************************************************************************)
\* the i-th argument ends the visit: p raises on it or it decides the result
VisitEndsAt(i) ==
    LET r == OnArg(i)
    IN  \/ r.exc # "none"
        \/ tree.op = "all" /\ ~Truth(r.ret)
        \/ tree.op \in {"any", "none"} /\ Truth(r.ret)

\* the last argument visited
LastVisited ==
    IF \E i \in DOMAIN args : VisitEndsAt(i)
    THEN CHOOSE i \in DOMAIN args :
             VisitEndsAt(i) /\ \A j \in DOMAIN args : j < i => ~VisitEndsAt(j)
    ELSE Len(args)

\* the applications of p to the arguments 1 .. k, each once, in order
RECURSIVE VisitsUpTo(_)
VisitsUpTo(k) == IF k = 0 THEN << >> ELSE VisitsUpTo(k - 1) \o OnArg(k).inv

\* the first argument that decides the result, when p raises on none before it
Decided(i) ==
    /\ OnArg(i).exc = "none"
    /\ VisitEndsAt(i)
    /\ \A j \in 1 .. i - 1 : ~VisitEndsAt(j)

C13_QuantifierShortCircuit ==
    QuantCalled =>
        /\ invoked = VisitsUpTo(LastVisited)
        /\ \A i \in DOMAIN args : Decided(i) =>
               /\ raised = "none"
               /\ result = PyBool(tree.op = "any")

\* _any(passfail)(True, 'fail'): true, passfail applied to True only
C13_Witness ==
    /\ QuantCalled
    /\ tree = Node("any", << Leaf("passfail") >>)
    /\ Len(args) >= 2 /\ args[1] = "True" /\ args[2] = "'fail'"
    /\ result = PyTrue /\ raised = "none"
    /\ invoked = << Applied("passfail", << "True" >>, "call") >>

(***************************************************************************)
(* C14  Count specifications are validated at construction, never at call  *)
(* time: _nis, and through it _nargs, _npos and _nkw, raise ValueError     *)
(* when built with a negative limit, with exactly together with atleast or *)
(* atmost (a limit of 0 is a limit given), or with none of the three; a    *)
(* predicate that was built never raises that error when applied.          *)
(***************************************************************************)
IsGiven(o) == ~IsNone(o)

CountForm == form \in {"nis"} \cup Counters

BadCountSpec(s) ==
    \/ \E o \in {s.atleast, s.atmost, s.exactly} : IsGiven(o) /\ Val(o) < 0
    \/ IsGiven(s.exactly) /\ (IsGiven(s.atleast) \/ IsGiven(s.atmost))
    \/ ~IsGiven(s.exactly) /\ ~IsGiven(s.atleast) /\ ~IsGiven(s.atmost)

C14_CountSpecValidation ==
    (CountForm /\ pc # "idle") =>
        /\ BadCountSpec(given) => (pc = "error" /\ err = "ValueError")
        /\ pc \in {"built", "called"} => (err = "none" /\ raised = "none")

\* _nkw(atleast=0, exactly=1) raises at construction
C14_Witness ==
    /\ form = "nkw"
    /\ given = CountSpec(Some(0), None, Some(1))
    /\ pc = "error"
    /\ err = "ValueError"

(***************************************************************************)
(* C15  Range semantics of _nis: for every valid specification and every   *)
(* number n >= 0, with exactly given (0 included) the predicate is true    *)
(* iff n = exactly; otherwise it is true iff atleast <= n <= atmost, an    *)
(* omitted atleast being 0 and an omitted atmost no upper limit; a limit   *)
(* given as 0 is a limit given.                                            *)
(***************************************************************************)
InRange(s, n) ==
    IF IsGiven(s.exactly) THEN n = Val(s.exactly)
    ELSE /\ IsGiven(s.atleast) => Val(s.atleast) <= n
         /\ IsGiven(s.atmost) => n <= Val(s.atmost)

C15_RangeSemantics ==
    (form = "nis" /\ pc = "called") => result = PyBool(InRange(given, args[1]))

\* _nis(atmost=0)(1) is false: the limit 0 is taken as given
C15_Witness ==
    /\ form = "nis" /\ pc = "called"
    /\ given = CountSpec(None, Some(0), None)
    /\ args = << 1 >>
    /\ result = PyFalse

(***************************************************************************)
(* C16  Call-shape counters: _nargs applies the range check of _nis to the *)
(* number of positional plus keyword arguments of the call, _npos to the   *)
(* number of positional arguments, _nkw to the number of keyword           *)
(* arguments; the values of the arguments never matter, and the predicate  *)
(* _fnis builds from a counting function f answers as _nis of the same     *)
(* limits answers on f of the call.                                        *)
(***************************************************************************)
Counted ==
    CASE form = "nargs" -> Len(args) + Cardinality(DictKeys(kwargs))
      [] form = "npos"  -> Len(args)
      [] form = "nkw"   -> Cardinality(DictKeys(kwargs))

C16_CallShapeCounters ==
    (form \in Counters /\ pc = "called") =>
        /\ result = PyBool(InRange(given, Counted))
        /\ result = PyBool(NisApply(NisClosure(given), Counted))

\* _nargs(exactly=2) on one positional and one keyword argument
C16_Witness ==
    /\ form = "nargs" /\ pc = "called"
    /\ given = CountSpec(None, None, Some(2))
    /\ Len(args) = 1
    /\ Cardinality(DictKeys(kwargs)) = 1
    /\ result = PyTrue

(***************************************************************************)
(* C17  Keyword presence, exactly form: for exactly given as a mapping or  *)
(* as any finite iterable of names, in any order and with any repetition,  *)
(* _inkw(exactly=E) is true of a call iff the set of keyword names of the  *)
(* call equals the set of the names in E; keyword values and positional    *)
(* arguments never matter.  The closure compares len(kwargs) with len(E),  *)
(* so a tuple that repeats a name refutes it.                              *)
(***************************************************************************)
InkwCalled == form = "inkw" /\ pc = "called"

\* the set of the names of a collection given
NamesOf(o) == {Val(o).items[i] : i \in DOMAIN Val(o).items}

C17_ExactlyIsSetEquality ==
    (InkwCalled /\ IsGiven(given.exactly)) =>
        result = PyBool(DictKeys(kwargs) = NamesOf(given.exactly))

(***************************************************************************)
(* C18  Keyword presence, atleast/atmost form: with have the set of        *)
(* keyword names of the call, _inkw(atleast=A) is true iff A is a subset   *)
(* of have, _inkw(atmost=M) iff have is a subset of M, and with both iff   *)
(* A is a subset of have and have of M; an omitted atleast is the empty    *)
(* set; of A and M, mappings or iterables, only the names count; keyword   *)
(* values and positional arguments never matter.                           *)
(***************************************************************************)
C18_AtleastAtmost ==
    (InkwCalled /\ ~IsGiven(given.exactly)) =>
        result = PyBool(/\ IsGiven(given.atleast) =>
                               NamesOf(given.atleast) \subseteq DictKeys(kwargs)
                        /\ IsGiven(given.atmost) =>
                               DictKeys(kwargs) \subseteq NamesOf(given.atmost))

\* _inkw(atleast=('jack','jack'), atmost={'kate':.., 'jack':..}) on a call with
\* positional arguments and the keyword jack alone
C18_Witness ==
    /\ InkwCalled
    /\ given = CountSpec(Some(TupleOf(<< "jack", "jack" >>)),
                         Some(DictOf(<< "kate", "jack" >>)), None)
    /\ args # << >>
    /\ DictKeys(kwargs) = {"jack"}
    /\ result = PyTrue

(***************************************************************************)
(* C19  Keyword presence is validated at construction: _inkw raises        *)
(* ValueError when exactly is given together with atleast or with atmost,  *)
(* empty collections included, and when none of the three is given; an     *)
(* empty collection counts as given, and construction then succeeds.       *)
(***************************************************************************)
BadKwSpec(s) ==
    \/ IsGiven(s.exactly) /\ (IsGiven(s.atleast) \/ IsGiven(s.atmost))
    \/ ~IsGiven(s.exactly) /\ ~IsGiven(s.atleast) /\ ~IsGiven(s.atmost)

C19_KwSpecValidation ==
    (form = "inkw" /\ pc # "idle") =>
        /\ BadKwSpec(given) => (pc = "error" /\ err = "ValueError")
        /\ ~BadKwSpec(given) => (pc \in {"built", "called"} /\ err = "none")

\* _inkw(atleast={}, exactly={}) raises at construction
C19_Witness ==
    /\ form = "inkw"
    /\ given = CountSpec(Some(DictOf(<< >>)), None, Some(DictOf(<< >>)))
    /\ pc = "error"
    /\ err = "ValueError"

(***************************************************************************)
(* C20  Emptiness is zero length, not falsiness: isempty(v) is true iff v  *)
(* has a length and that length is 0; of a value without a length (None,   *)
(* the integer 0, False) it is false, and isempty does not raise; of a     *)
(* sized value that is not empty (a tuple of one element, a string of one  *)
(* space) it is false.                                                     *)
(***************************************************************************)
\* the values that have no length, and the sized values of length 0
Unsized == {"None", "0", "False", "True", "42"}
ZeroLength == {"''", "()", "[]", "{}"}

IsEmptyApplied == form = "value" /\ pc = "called" /\ tree = Leaf("isempty")

C20_EmptinessIsZeroLength ==
    IsEmptyApplied =>
        /\ raised = "none"
        /\ result = PyBool(args[1] \notin Unsized /\ args[1] \in ZeroLength)
        /\ args[1] \in {"None", "0", "False", "(1,)", "' '"} => result = PyFalse

\* isempty(0) is false and does not raise
C20_Witness ==
    /\ IsEmptyApplied
    /\ args = << "0" >>
    /\ result = PyFalse
    /\ raised = "none"

(***************************************************************************)
(* C21  Unsupported operations propagate: the emptiness test applied to a  *)
(* value that has no length raises an error that reaches the caller, also  *)
(* through any enclosing combinator, and is never turned into false.       *)
(* isempty asks issized first (line 491), so of such a value it answers    *)
(* false; what does hold is that an exception a predicate raises reaches   *)
(* the caller of every enclosing combinator.                               *)
(***************************************************************************)
\* the j-th leaf application of the call is isempty of a value without a length
EmptinessOfUnsized(j) ==
    /\ invoked[j].pred = "isempty"
    /\ Len(invoked[j].arg) = 1
    /\ invoked[j].arg[1] \in Unsized

\* what the j-th leaf application of the call did
LeafOutcome(j) == LeafCall(invoked[j].pred, invoked[j].arg, kwargs)

\* the claim as made: a call that applies isempty to such a value raises
C21_AsClaimed ==
    (BoolCalled /\ \E j \in DOMAIN invoked : EmptinessOfUnsized(j)) => raised # "none"

C21_FailuresPropagate ==
    BoolCalled =>
        /\ \A j \in DOMAIN invoked : LeafOutcome(j).exc # "none" =>
               /\ raised = LeafOutcome(j).exc
               /\ result \notin {PyTrue, PyFalse}
               /\ j = Len(invoked)
        /\ (\A j \in DOMAIN invoked : EmptinessOfUnsized(j)) =>
               (raised = "none" /\ result \in {PyTrue, PyFalse})
        /\ (tree.subs = << Leaf("isempty") >> /\ args = << "42" >>) =>
               result = PyBool(tree.op = "not")

\* _not(isempty, fail)(42): isempty answers false of 42, then fail raises and the
\* exception reaches the caller
C21_Witness ==
    /\ BoolCalled
    /\ tree = Node("not", << Leaf("isempty"), Leaf("fail") >>)
    /\ args = << "42" >>
    /\ Len(invoked) = 2
    /\ raised = "Exception"

(***************************************************************************)
(* C22  The memo of _return is not observable: after any earlier calls,    *)
(* the module's own _return(True) and _return(False) among them, the       *)
(* predicate _return(v) returns is one that returns exactly v, also for a  *)
(* hashable v equal to a different memoized value (1 and True, 0 and       *)
(* False) and for a v that is not hashable.  The memo finds True for 1, so *)
(* the predicate _return(1) gives back returns True.                       *)
(***************************************************************************)
Returned_(t) == calls[t].pc = "done"

C22_ReturnsValuePassed ==
    \A t \in Callers : Returned_(t) => calls[t].ret.val = calls[t].val

(***************************************************************************)
(* C23  _zip applies its predicates position by position and truncates:    *)
(* for predicates p1..pn and positional arguments a1..am, none of the      *)
(* applications raising, _zip(p1..pn) is true iff pi(ai) is true for every *)
(* i from 1 to min(n, m); predicates beyond the arguments and arguments    *)
(* beyond the predicates are ignored, keyword arguments are ignored, and   *)
(* _zip() with no predicate is true of every call.                         *)
(***************************************************************************)
ZipCalled == pc = "called" /\ form = "zip"

\* min(n, m)
Paired == IF Len(tree.subs) < Len(args) THEN Len(tree.subs) ELSE Len(args)

\* pi(ai)
PairOutcome(i) == EvalPred(tree.subs[i], << args[i] >>, EmptyDict)

C23_ZipTruncates ==
    ZipCalled =>
        /\ (\A i \in 1 .. Paired : PairOutcome(i).exc = "none") =>
               /\ raised = "none"
               /\ result = PyBool(\A i \in 1 .. Paired : Truth(PairOutcome(i).ret))
        /\ tree.subs = << >> => (result = PyTrue /\ invoked = << >>)
        /\ \A j \in DOMAIN invoked : \E i \in 1 .. Paired :
               invoked[j] = Applied(tree.subs[i].leaf, << args[i] >>, "call")
        /\ LET alone == EvalPred(tree, args, EmptyDict)
           IN  result = alone.ret /\ raised = alone.exc /\ invoked = alone.inv

\* _zip(isstring, isempty)('jack'): the second predicate has no argument, and is
\* not applied
C23_Witness ==
    /\ ZipCalled
    /\ tree = Node("zip", << Leaf("isstring"), Leaf("isempty") >>)
    /\ args = << "'jack'" >>
    /\ DictKeys(kwargs) # {}
    /\ result = PyTrue
    /\ Len(invoked) = 1

(***************************************************************************)
(* C24  Every predicate has two kinds of outcome: a predicate built by a   *)
(* combinator or a factory either returns one of the booleans True and     *)
(* False, never another truthy or falsy value, even when a predicate it    *)
(* holds returns a string, a number or a tuple, or it raises.              *)
(***************************************************************************)
\* a predicate built by a combinator or a factory has been called
BuiltCalled == pc = "called" /\ form # "value"

OfKeyword(j) == invoked[j].at \in KwNames

\* the positional check of the call fails
PosCheckFails ==
    \E x \in Selected(rawkey, Len(args)) : ~Holds(pos, args[x + 1])

C25_PositionalFirst ==
    BothCalled =>
        /\ \A i, j \in DOMAIN invoked : (OfKeyword(i) /\ ~OfKeyword(j)) => j < i
        /\ PosCheckFails => \A j \in DOMAIN invoked : ~OfKeyword(j)
        /\ ~PosCheckFails => \E j \in DOMAIN invoked : OfKeyword(j)
        /\ \A j \in DOMAIN invoked :
               (OfKeyword(j) /\ ~Holds(invoked[j].pred, invoked[j].arg))
                   => j = Len(invoked)

\* two selected arguments pass, then the first of two keyword predicates fails
\* and the second is not invoked
C25_Witness ==
    /\ BothCalled
    /\ Cardinality(DictKeys(kwp)) = 2
    /\ Len(invoked) = 3
    /\ ~OfKeyword(1) /\ ~OfKeyword(2) /\ OfKeyword(3)
    /\ result = PyFalse

(***************************************************************************)
(* C26  An inconsistent keyword presence specification is accepted and     *)
(* cannot be satisfied: for name sets A and M with A not a subset of M,    *)
(* _inkw(atleast=A, atmost=M) is built without raising, and the predicate  *)
(* returns false of every call.                                            *)
(***************************************************************************)
Inconsistent(s) ==
    /\ IsGiven(s.atleast) /\ IsGiven(s.atmost) /\ ~IsGiven(s.exactly)
    /\ ~(NamesOf(s.atleast) \subseteq NamesOf(s.atmost))

C26_InconsistentSpec ==
    (form = "inkw" /\ pc # "idle" /\ Inconsistent(given)) =>
        /\ pc \in {"built", "called"}
        /\ err = "none"
        /\ pc = "called" => (result = PyFalse /\ raised = "none")

\* _inkw(atleast=('jack',), atmost=('kate',)) called with both names
C26_Witness ==
    /\ InkwCalled
    /\ given = CountSpec(Some(TupleOf(<< "jack" >>)), Some(TupleOf(<< "kate" >>)), None)
    /\ DictKeys(kwargs) = {"jack", "kate"}
    /\ result = PyFalse

(***************************************************************************)
(* C30  The exactly form of the keyword presence check agrees with the     *)
(* two-sided form: for every collection of names S given without           *)
(* repetition and every call, _inkw(exactly=S) returns what                *)
(* _inkw(atleast=S, atmost=S) returns.                                     *)
(***************************************************************************)
\* the collection given as exactly repeats no name
WithoutRepetition(o) == Distinct(Val(o).items)

\* _inkw(atleast=S, atmost=S) applied to the call the state holds
TwoSided(o) == InkwApply(InkwClosure(CountSpec(o, o, None)), kwargs)

C30_ExactlyAgreesWithTwoSided ==
    (InkwCalled /\ IsGiven(given.exactly) /\ WithoutRepetition(given.exactly)) =>
        /\ ~InkwInvalid(CountSpec(given.exactly, given.exactly, None))
        /\ result = PyBool(TwoSided(given.exactly))
        /\ result = PyBool(DictKeys(kwargs) = NamesOf(given.exactly))

\* _inkw(exactly={'kate':.., 'jack':..}) on a call that passes both names
C30_Witness ==
    /\ InkwCalled
    /\ given = CountSpec(None, None, Some(DictOf(<< "kate", "jack" >>)))
    /\ DictKeys(kwargs) = {"jack", "kate"}
    /\ args # << >>
    /\ result = PyTrue

(***************************************************************************)
(* C27  The memo is inserted into once under concurrency: when several     *)
(* threads call _return concurrently, in every interleaving all callers of *)
(* _return(v) for the same hashable v obtain the same predicate object, an *)
(* entry being inserted at most once and never overwritten.  Nothing       *)
(* orders the test of line 669 and the store of line 672 of one thread     *)
(* against those of another, so two threads may both store.                *)
(***************************************************************************)
\* two finished calls were given values that find the same key of the memo
SameKey(t, u) ==
    /\ Returned_(t) /\ Returned_(u)
    /\ Hashable(calls[t].val) /\ Hashable(calls[u].val)
    /\ DictKey(calls[t].val) = DictKey(calls[u].val)

C27_SameObjectForAll ==
    \A t, u \in Callers : SameKey(t, u) => calls[t].ret = calls[u].ret

(***************************************************************************)
(* C28  Memoization in sequential use: for a hashable v every call of      *)
(* _return(v) after the first returns the predicate object the first       *)
(* returned and leaves the memo as it was, so the memo only grows and      *)
(* holds one entry per key; for a v that is not hashable every call        *)
(* returns a fresh predicate, which always returns v, and leaves the memo  *)
(* as it was.                                                              *)
(***************************************************************************)
\* the closures the memo holds
Memoized == {memo[k] : k \in {j \in MemoKeys : memo[j] # NoEntry}}

MemoStateOk ==
    /\ \A t \in Callers : (Returned_(t) /\ Hashable(calls[t].val)) =>
           /\ calls[t].ret # NoEntry
           /\ calls[t].ret = memo[DictKey(calls[t].val)]
    /\ \A t, u \in Callers : SameKey(t, u) => calls[t].ret = calls[u].ret
    /\ \A t \in Callers : (Returned_(t) /\ ~Hashable(calls[t].val)) =>
           /\ calls[t].ret.val = calls[t].val
           /\ calls[t].ret \notin Memoized
           /\ \A u \in Callers \ {t} : Returned_(u) => calls[u].ret.id # calls[t].ret.id
    /\ \A j, k \in MemoKeys : (memo[j] # NoEntry /\ memo[j].id = memo[k].id) => j = k

MemoStepOk ==
    /\ \A k \in MemoKeys : memo[k] # NoEntry => memo'[k] = memo[k]
    /\ \A t \in Callers :
           (calls[t].pc \in {"lookup", "fetch", "fresh"} /\ calls'[t] # calls[t])
               => memo' = memo
    /\ \A t \in Callers :
           (calls[t].pc = "lookup" /\ memo[DictKey(calls[t].val)] # NoEntry)
               => calls'[t].pc \in {"lookup", "fetch"}

EvaluationStep == pc \in {"built", "called"} /\ pc' = "called" /\ calls' = calls

CapturedUnchanged ==
    /\ key' = key /\ pos' = pos /\ kwp' = kwp
    /\ tree' = tree /\ given' = given /\ bound' = bound

SameAgain ==
    again' => /\ args' = args /\ kwargs' = kwargs
              /\ result' = result /\ raised' = raised

=============================================================================
